---- MODULE Spec2Model ----
(***************************************************************************)
(* obssim.py: TargetScene (addPointSource, calcImage, display) and         *)
(* specFromSpectralType, as a state machine.                               *)
(*                                                                         *)
(* Representation.  A Python str is a sequence of one-character strings    *)
(* wherever the code indexes or searches it (spectral types); names and    *)
(* format strings, which the code only passes along, are TLA+ strings.     *)
(* A Python value whose type the code tests is a record [type, val].       *)
(* Lengths are integers in milli-arcsec, angles integers in degrees,       *)
(* cos/sin are a 4-digit fixed-point table, so a float result is modelled  *)
(* rounded to the nearest milli-arcsec / degree.  Ordinals of sort_sptype  *)
(* and log g are scaled by 10.                                             *)
(***************************************************************************)
EXTENDS Integers, Sequences, FiniteSets, TLC

VARIABLES
    sources,      \* self.sources
    pc,           \* "idle" | "loop" | "post": position inside calcImage
    op,           \* the call in progress or the last call made
    call,         \* the arguments of the last addPointSource call
    cargs,        \* the arguments of the last calcImage call
    exc,          \* the exception the last call raised (NoExc if none)
    idx,          \* number of iterations of the calcImage loop begun
    sum_image,    \* calcImage local sum_image
    effstim_Jy,   \* calcImage local effstim_Jy (bound or not)
    options,      \* instrument.options source_offset_r / source_offset_theta
    ret,          \* the value calcImage returned
    disk,         \* TRUE iff the output file exists
    wrote,        \* TRUE iff the last calcImage call wrote the output file
    dict_order,   \* iteration order of lookuptable.keys()
    sptype_list   \* the value of the last specFromSpectralType call

vars == <<sources, pc, op, call, cargs, exc, idx, sum_image, effstim_Jy,
          options, ret, disk, wrote, dict_order, sptype_list>>

\* Bound on the number of sources a scene holds in the model.
MaxSources == 2

-----------------------------------------------------------------------------
(* Python values and exceptions *)

PyNone == [type |-> "NoneType", val |-> 0]
PyFloat(x) == [type |-> "float", val |-> x]
PyTuple == [type |-> "tuple", val |-> 0]
PyStr(chars) == [type |-> "str", val |-> chars]
\* a pysynphot spectrum object handed in directly
PySpectrum == [type |-> "Spectrum", val |-> <<>>]

\* isinstance(x, numbers.Number)
IsNumber(x) == x.type \in {"int", "float"}

NoExc == [type |-> "None", fmt |-> "", arg |-> <<>>]
Raise(t, f, a) == [type |-> t, fmt |-> f, arg |-> a]

\* raise NotImplemented("Not Yet"): NotImplemented is the constant, not the
\* exception class, so the call expression itself raises TypeError.
NotImplementedRaise ==
    Raise("TypeError", "'NotImplementedType' object is not callable", <<>>)

-----------------------------------------------------------------------------
(* specFromSpectralType *)

V == <<"V">>
I == <<"I">>
III == <<"I", "I", "I">>
T(letter, digit, class) == <<letter, digit>> \o class

\* lookuptable, in source order: <<key, Teff, metallicity, 10 * log g>>
lookuptable_rows == <<
    <<T("O","3",V), 50000, 0, 50>>, <<T("O","5",V), 45000, 0, 50>>,
    <<T("O","6",V), 40000, 0, 45>>, <<T("O","8",V), 35000, 0, 40>>,
    <<T("O","5",I), 40000, 0, 45>>, <<T("O","6",I), 40000, 0, 45>>,
    <<T("O","8",I), 34000, 0, 40>>, <<T("B","0",V), 30000, 0, 40>>,
    <<T("B","3",V), 19000, 0, 40>>, <<T("B","5",V), 15000, 0, 40>>,
    <<T("B","8",V), 12000, 0, 40>>, <<T("B","0",III), 29000, 0, 35>>,
    <<T("B","5",III), 15000, 0, 35>>, <<T("B","0",I), 26000, 0, 30>>,
    <<T("B","5",I), 14000, 0, 25>>, <<T("A","0",V), 9500, 0, 40>>,
    <<T("A","5",V), 8250, 0, 45>>, <<T("A","0",I), 9750, 0, 20>>,
    <<T("A","5",I), 8500, 0, 20>>, <<T("F","0",V), 7250, 0, 45>>,
    <<T("F","5",V), 6500, 0, 45>>, <<T("F","0",I), 7750, 0, 20>>,
    <<T("F","5",I), 7000, 0, 15>>, <<T("G","0",V), 6000, 0, 45>>,
    <<T("G","5",V), 5750, 0, 45>>, <<T("G","0",III), 5750, 0, 30>>,
    <<T("G","5",III), 5250, 0, 25>>, <<T("G","0",I), 5500, 0, 15>>,
    <<T("G","5",I), 4750, 0, 10>>, <<T("K","0",V), 5250, 0, 45>>,
    <<T("K","5",V), 4250, 0, 45>>, <<T("K","0",III), 4750, 0, 20>>,
    <<T("K","5",III), 4000, 0, 15>>, <<T("K","0",I), 4500, 0, 10>>,
    <<T("K","5",I), 3750, 0, 5>>, <<T("M","0",V), 3750, 0, 45>>,
    <<T("M","2",V), 3500, 0, 45>>, <<T("M","5",V), 3500, 0, 50>>,
    <<T("M","0",III), 3750, 0, 15>>, <<T("M","0",I), 3750, 0, 0>>,
    <<T("M","2",I), 3500, 0, 0>> >>

lookuptable_keys == {lookuptable_rows[i][1] : i \in 1..Len(lookuptable_rows)}

lookuptable(k) ==
    LET r == CHOOSE i \in 1..Len(lookuptable_rows) : lookuptable_rows[i][1] = k
    IN  <<lookuptable_rows[r][2], lookuptable_rows[r][3], lookuptable_rows[r][4]>>

\* sub in s, for Python strings
Contains(sub, s) ==
    \E i \in 1..(Len(s) - Len(sub) + 1) : SubSeq(s, i, i + Len(sub) - 1) = sub

lettervals(letter) ==
    CASE letter = "O" -> 0 [] letter = "B" -> 10 [] letter = "A" -> 20
      [] letter = "F" -> 30 [] letter = "G" -> 40 [] letter = "K" -> 50
      [] letter = "M" -> 60

\* int(typestr[1]) for a one-digit string
int(d) ==
    CASE d = "0" -> 0 [] d = "1" -> 1 [] d = "2" -> 2 [] d = "3" -> 3
      [] d = "4" -> 4 [] d = "5" -> 5 [] d = "6" -> 6 [] d = "7" -> 7
      [] d = "8" -> 8 [] d = "9" -> 9

\* A slip in sort_sptype: the "I" test placed before the "III" test.
sort_sptype_I_first(typestr) ==
    10 * lettervals(typestr[1]) + 10 * int(typestr[2])
      + (IF Contains(I, typestr) THEN 1
         ELSE IF Contains(III, typestr) THEN 3
         ELSE IF Contains(V, typestr) THEN 5 ELSE 0)

\* sort_sptype, times 10 (typestr[0] is typestr[1] here: TLA+ counts from 1)
sort_sptype(typestr) ==
    10 * lettervals(typestr[1]) + 10 * int(typestr[2])
      + (IF Contains(III, typestr) THEN 3
         ELSE IF Contains(I, typestr) THEN 1
         ELSE IF Contains(V, typestr) THEN 5 ELSE 0)

\* list.sort(key=...): a stable ascending sort, here by insertion
SortInsert(s, x) ==
    LET k == Cardinality({i \in 1..Len(s) : sort_sptype(s[i]) <= sort_sptype(x)})
    IN  SubSeq(s, 1, k) \o <<x>> \o SubSeq(s, k + 1, Len(s))

RECURSIVE SortFrom(_, _)
SortFrom(done, rest) ==
    IF rest = <<>> THEN done
    ELSE SortFrom(SortInsert(done, Head(rest)), Tail(rest))

\* specFromSpectralType(sptype, return_list): [exc, val].  The spectrum
\* pysynphot.Icat returns is modelled by its three catalogue parameters.
specFromSpectralType(sptype, return_list, keys) ==
    IF return_list THEN [exc |-> NoExc, val |-> SortFrom(<<>>, keys)]
    ELSE IF sptype \in lookuptable_keys
         THEN [exc |-> NoExc, val |-> lookuptable(sptype)]
         ELSE [exc |-> Raise("LookupError",
                      "Lookup table does not include spectral type %s", sptype),
               val |-> <<>>]

-----------------------------------------------------------------------------
(* numpy: cos, sin, arctan2, sqrt in fixed point *)

\* 10^4 * cos(d degrees) for d = 0..90, rounded
CosTab == <<
    10000, 9998, 9994, 9986, 9976, 9962, 9945, 9925, 9903, 9877, 9848, 9816,
    9781, 9744, 9703, 9659, 9613, 9563, 9511, 9455, 9397, 9336, 9272, 9205,
    9135, 9063, 8988, 8910, 8829, 8746, 8660, 8572, 8480, 8387, 8290, 8192,
    8090, 7986, 7880, 7771, 7660, 7547, 7431, 7314, 7193, 7071, 6947, 6820,
    6691, 6561, 6428, 6293, 6157, 6018, 5878, 5736, 5592, 5446, 5299, 5150,
    5000, 4848, 4695, 4540, 4384, 4226, 4067, 3907, 3746, 3584, 3420, 3256,
    3090, 2924, 2756, 2588, 2419, 2250, 2079, 1908, 1736, 1564, 1392, 1219,
    1045, 872, 698, 523, 349, 175, 0 >>

\* N.cos(d * N.pi/180), times 10^4
Cos(d) ==
    LET a == d % 360
    IN  IF a <= 90 THEN CosTab[a + 1]
        ELSE IF a <= 180 THEN -CosTab[180 - a + 1]
        ELSE IF a <= 270 THEN -CosTab[a - 180 + 1]
        ELSE CosTab[360 - a + 1]

\* N.sin(d * N.pi/180), times 10^4
Sin(d) == Cos(d - 90)

\* a / b rounded to the nearest integer, b > 0
RoundDiv(a, b) ==
    IF a >= 0 THEN (2 * a + b) \div (2 * b) ELSE -((2 * (-a) + b) \div (2 * b))

RECURSIVE SqrtSearch(_, _, _)
SqrtSearch(n, lo, hi) ==
    IF lo >= hi THEN lo
    ELSE LET mid == (lo + hi + 1) \div 2
         IN  IF mid * mid <= n THEN SqrtSearch(n, mid, hi)
             ELSE SqrtSearch(n, lo, mid - 1)

\* N.sqrt(n), rounded to the nearest integer
Sqrt(n) ==
    LET f == SqrtSearch(n, 0, 10 ^ 4)
    IN  IF n - f * f > f THEN f + 1 ELSE f

RECURSIVE AngleSearch(_, _, _, _)
\* the largest d in lo..hi at which the direction d degrees is not past
\* (x, y), counting counter-clockwise: y cos d - x sin d >= 0
AngleSearch(y, x, lo, hi) ==
    IF lo >= hi THEN lo
    ELSE LET mid == (lo + hi + 1) \div 2
         IN  IF y * Cos(mid) - x * Sin(mid) >= 0
             THEN AngleSearch(y, x, mid, hi)
             ELSE AngleSearch(y, x, lo, mid - 1)

\* N.arctan2(y, x) * 180/N.pi, rounded to the nearest degree;
\* arctan2(0, 0) is 0.
Arctan2Deg(y, x) ==
    IF x = 0 /\ y = 0 THEN 0
    ELSE LET lo == IF y >= 0 THEN (IF x >= 0 THEN 0 ELSE 90)
                   ELSE (IF x >= 0 THEN -90 ELSE -180)
             f == AngleSearch(y, x, lo, lo + 90)
             cross(d) == y * Cos(d) - x * Sin(d)
         IN  IF f = lo + 90 \/ cross(f) <= -cross(f + 1) THEN f ELSE f + 1

-----------------------------------------------------------------------------
(* FITS structures: an HDU is [data, header, history]; an HDUList is        *)
(* [none, hdus], none = TRUE standing for Python's None.                    *)

None_HDUList == [none |-> TRUE, hdus |-> <<>>]

\* header.update(key, value)
HeaderUpdate(h, k, v) == [x \in (DOMAIN h) \cup {k} |-> IF x = k THEN v ELSE h[x]]

Entry(f, str, nums) == [fmt |-> f, s |-> str, n |-> nums]

\* header.add_history(text) on HDU h
AddHistory(h, e) == [h EXCEPT !.history = Append(@, e)]

RECURSIVE PixelSum(_)
\* data.sum()
PixelSum(d) == IF d = <<>> THEN 0 ELSE Head(d) + PixelSum(Tail(d))

\* data * k, elementwise
Scale(d, k) == [i \in 1..Len(d) |-> d[i] * k]

\* a + b, elementwise
AddData(a, b) == [i \in 1..Len(a) |-> a[i] + b[i]]

\* webbpsf.rebin_array(data, rc=(d, d)): d x d blocks averaged; the model's
\* image is one 2 x 2 block, stored flat.
rebin_array(data, d) ==
    IF d * d = Len(data) THEN <<PixelSum(data) \div (d * d)>> ELSE data

\* pysynphot.Observation(spectrum, bp).effstim('Jy') for the instrument's
\* bandpass: a fixed flux per spectrum.
Effstim(spectrum) ==
    IF spectrum.type = "str" THEN lookuptable(spectrum.val)[1] \div 1000 ELSE 7

\* instrument.calcPSF(source, rebin, ...): an HDUList of inst.nExt extensions;
\* the first holds the oversampled unit-normalised PSF of the source at the
\* offset in instrument.options.
calcPSF(inst, spectrum, opts, rebin) ==
    LET pix == <<IF spectrum.type = "str" THEN 8 ELSE 12, 4 * (1 + (opts.r % 3)),
                 4 * (1 + (opts.theta % 7)), 4>>
        hdr == [k \in {"DET_SAMP", "OVERSAMP", "PIXELSCL", "EXTNAME"} |->
                   CASE k = "DET_SAMP" -> inst.detSamp
                     [] k = "OVERSAMP" -> inst.detSamp
                     [] k = "PIXELSCL" -> 32 \div inst.detSamp
                     [] k = "EXTNAME" -> "OVERSAMP"]
        first == [data |-> pix, header |-> hdr, history |-> <<>>]
        det == [data |-> rebin_array(pix, inst.detSamp),
                header |-> HeaderUpdate(HeaderUpdate(hdr, "OVERSAMP", 1),
                                        "EXTNAME", "DET_SAMP"),
                history |-> <<>>]
    IN  [none |-> FALSE,
         hdus |-> [i \in 1..inst.nExt |-> IF i = 1 THEN first ELSE det]]

-----------------------------------------------------------------------------
(* TargetScene.addPointSource *)

\* the descriptor appended for the arguments a
Descriptor(a) ==
    [spectrum |-> a.sptype_or_spectrum, separation |-> a.separation,
     PA |-> a.PA, normalization |-> a.normalization, name |-> a.name]

\* A slip in addPointSource: the descriptor appended before the lookup.
addPointSource_append_first(srcs, a) ==
    LET r == IF a.sptype_or_spectrum.type = "str"
             THEN specFromSpectralType(a.sptype_or_spectrum.val, FALSE, <<>>)
             ELSE [exc |-> NoExc, val |-> <<>>]
    IN  [exc |-> r.exc, sources |-> Append(srcs, Descriptor(a))]

\* A slip in addPointSource: the descriptor inserted at the front.
addPointSource_prepend(srcs, a) ==
    LET r == IF a.sptype_or_spectrum.type = "str"
             THEN specFromSpectralType(a.sptype_or_spectrum.val, FALSE, <<>>)
             ELSE [exc |-> NoExc, val |-> <<>>]
    IN  IF r.exc # NoExc THEN [exc |-> r.exc, sources |-> srcs]
        ELSE [exc |-> NoExc, sources |-> <<Descriptor(a)>> \o srcs]

\* addPointSource(...) on self.sources = srcs: [exc, sources]
addPointSource(srcs, a) ==
    LET r == IF a.sptype_or_spectrum.type = "str"
             THEN specFromSpectralType(a.sptype_or_spectrum.val, FALSE, <<>>)
             ELSE [exc |-> NoExc, val |-> <<>>]
    IN  IF r.exc # NoExc THEN [exc |-> r.exc, sources |-> srcs]
        ELSE [exc |-> NoExc, sources |-> Append(srcs, Descriptor(a))]

-----------------------------------------------------------------------------
(* TargetScene.calcImage, one loop iteration *)

\* A slip in the offset branch: the image PA not subtracted.
ResolveOffset_no_rotation(obj, c) ==
    IF c.offset_r.type = "NoneType"
    THEN [r |-> obj.separation, theta |-> obj.PA - c.PA]
    ELSE LET src_x == RoundDiv(obj.separation * Cos(obj.PA), 10 ^ 4)
                        + RoundDiv(c.offset_r.val * Cos(c.offset_PA), 10 ^ 4)
             src_y == RoundDiv(obj.separation * Sin(obj.PA), 10 ^ 4)
                        + RoundDiv(c.offset_r.val * Sin(c.offset_PA), 10 ^ 4)
         IN  [r |-> Sqrt(src_x * src_x + src_y * src_y),
              theta |-> Arctan2Deg(src_y, src_x)]

\* instrument.options['source_offset_r'], ['source_offset_theta'] for obj
ResolveOffset(obj, c) ==
    IF c.offset_r.type = "NoneType"
    THEN [r |-> obj.separation, theta |-> obj.PA - c.PA]
    ELSE LET obj_x == RoundDiv(obj.separation * Cos(obj.PA), 10 ^ 4)
             obj_y == RoundDiv(obj.separation * Sin(obj.PA), 10 ^ 4)
             offset_x == RoundDiv(c.offset_r.val * Cos(c.offset_PA), 10 ^ 4)
             offset_y == RoundDiv(c.offset_r.val * Sin(c.offset_PA), 10 ^ 4)
             src_x == obj_x + offset_x
             src_y == obj_y + offset_y
             src_r == Sqrt(src_x * src_x + src_y * src_y)
             src_pa == Arctan2Deg(src_y, src_x)
         IN  [r |-> src_r, theta |-> src_pa - c.PA]

\* "figure out the flux ratio": [exc, psf, effstim_Jy]
Normalize(obj, src_psf, eff) ==
    LET scaled(k) == [src_psf EXCEPT !.hdus[1].data = Scale(@, k)]
    IN  IF obj.normalization.type # "NoneType"
        THEN IF IsNumber(obj.normalization)
             THEN [exc |-> NoExc, psf |-> scaled(obj.normalization.val),
                   effstim_Jy |-> eff]
             ELSE [exc |-> NotImplementedRaise, psf |-> src_psf,
                   effstim_Jy |-> eff]
        ELSE [exc |-> NoExc, psf |-> scaled(Effstim(obj.spectrum)),
              effstim_Jy |-> [bound |-> TRUE, val |-> Effstim(obj.spectrum)]]

\* "add the scaled companion PSF to the stellar PSF"
Accumulate(sum, src_psf, c) ==
    IF sum.none
    THEN LET h0 == src_psf.hdus[1]
             h1 == AddHistory(h0, Entry(
                       "obssim : Creating an image simulation with multiple PSFs",
                       "", <<>>))
             hd == HeaderUpdate(HeaderUpdate(HeaderUpdate(h1.header,
                       "IMAGE_PA", c.PA),
                       "OFFSET_R", IF c.offset_r.type = "NoneType" THEN 0
                                   ELSE c.offset_r.val),
                       "OFFSETPA", c.offset_PA)
             h2 == [h1 EXCEPT !.header = hd]
             h3 == IF c.offset_r.type = "NoneType"
                   THEN AddHistory(h2, Entry(
                            "Image is centered on target (perfect acquisition)",
                            "", <<>>))
                   ELSE AddHistory(h2, Entry(
                            "Image is offset %.2f arcsec at PA=%.1f from target",
                            "", <<c.offset_r.val, c.offset_PA>>))
         IN  [src_psf EXCEPT !.hdus[1] = h3]
    ELSE [sum EXCEPT !.hdus[1].data = AddData(@, src_psf.hdus[1].data)]

AddedFmt == "Added source %s at r=%.3f, theta=%.2f"
EffstimFmt == "                with effstim = %.3g Jy"
CountsFmt == "                counts in image: %.3g"
PosFmt == "                pos in image: %.3g'' at %.1f deg"

\* "update FITS header history": [exc, sum].  The second line reads the
\* local effstim_Jy, which only the implicit-flux branch assigns.
UpdateHistory(sum, obj, src_psf, eff, opts) ==
    LET a1 == [sum EXCEPT !.hdus[1] =
                   AddHistory(@, Entry(AddedFmt, obj.name,
                                       <<obj.separation, obj.PA>>))]
    IN  IF ~eff.bound
        THEN [exc |-> Raise("UnboundLocalError",
                  "local variable 'effstim_Jy' referenced before assignment",
                  <<>>),
              sum |-> a1]
        ELSE [exc |-> NoExc,
              sum |-> [a1 EXCEPT !.hdus[1] =
                  AddHistory(AddHistory(AddHistory(@,
                      Entry(EffstimFmt, "", <<eff.val>>)),
                      Entry(CountsFmt, "", <<PixelSum(src_psf.hdus[1].data)>>)),
                      Entry(PosFmt, "", <<opts.r, opts.theta>>))]]

\* the body of "for obj in self.sources" on the locals st:
\* [exc, sum_image, effstim_Jy, options]
LoopBody(st, obj, c) ==
    LET opts == ResolveOffset(obj, c)
        psf0 == calcPSF(c.instrument, obj.spectrum, opts, c.rebin)
        nrm == Normalize(obj, psf0, st.effstim_Jy)
        acc == Accumulate(st.sum_image, nrm.psf, c)
        \* the first result IS the running sum: data.sum() reads the same array
        hist == UpdateHistory(acc, obj, nrm.psf, nrm.effstim_Jy, opts)
    IN  IF nrm.exc # NoExc
        THEN [exc |-> nrm.exc, sum_image |-> st.sum_image,
              effstim_Jy |-> st.effstim_Jy, options |-> opts]
        ELSE [exc |-> hist.exc, sum_image |-> hist.sum,
              effstim_Jy |-> nrm.effstim_Jy, options |-> opts]

-----------------------------------------------------------------------------
(* TargetScene.calcImage, after the loop *)

\* the detector-scale HDU generated from the summed image
RebinnedHDU(first) ==
    LET d == first.header["DET_SAMP"]
        h == HeaderUpdate(HeaderUpdate(HeaderUpdate(HeaderUpdate(first.header,
                 "OVERSAMP", 1), "CALCSAMP", d), "EXTNAME", "DET_SAMP"),
                 "PIXELSCL", first.header["PIXELSCL"] * d)
    IN  [first EXCEPT !.data = rebin_array(@, d), !.header = h]

\* A slip in the downsampling: the old extension kept, the new one appended.
Downsample_no_pop(sum) ==
    [exc |-> NoExc,
     sum |-> [sum EXCEPT !.hdus = Append(@, RebinnedHDU(sum.hdus[1]))]]

\* "downsample?" when rebin and DET_SAMP > 1: [exc, sum]
Downsample(sum) ==
    LET popped == SubSeq(sum.hdus, 1, Len(sum.hdus) - 1)
    IN  IF popped = <<>>
        THEN [exc |-> Raise("IndexError", "list index out of range", <<>>),
              sum |-> [sum EXCEPT !.hdus = popped]]
        ELSE [exc |-> NoExc,
              sum |-> [sum EXCEPT !.hdus = Append(popped, RebinnedHDU(popped[1]))]]

\* the statements after the loop: [exc, sum_image, ret, disk, wrote]
PostLoop(sum, srcs, c, dsk) ==
    LET fail(e, s) == [exc |-> e, sum_image |-> s, ret |-> None_HDUList,
                       disk |-> dsk, wrote |-> FALSE]
        counted == [sum EXCEPT !.hdus[1].header =
                        HeaderUpdate(@, "NSOURCES", Len(srcs))]
        down == IF c.rebin /\ counted.hdus[1].header["DET_SAMP"] > 1
                THEN Downsample(counted)
                ELSE [exc |-> NoExc, sum |-> counted]
        \* os.path.basename(outfile): the model's file name has no directory
        named == [down.sum EXCEPT !.hdus[1].header =
                      HeaderUpdate(@, "FILENAME", c.outfile.val)]
    IN  IF c.noise THEN fail(NotImplementedRaise, sum)
        ELSE IF sum.none
        THEN fail(Raise("TypeError",
                  "'NoneType' object has no attribute '__getitem__'", <<>>), sum)
        ELSE IF down.exc # NoExc THEN fail(down.exc, down.sum)
        ELSE IF c.outfile.type = "NoneType"
        THEN [exc |-> NoExc, sum_image |-> down.sum, ret |-> down.sum,
              disk |-> dsk, wrote |-> FALSE]
        ELSE IF dsk /\ ~c.clobber
        THEN fail(Raise("IOError", "File '%s' already exists.", c.outfile.val),
                  named)
        ELSE [exc |-> NoExc, sum_image |-> named, ret |-> named,
              disk |-> TRUE, wrote |-> TRUE]

\* the locals of calcImage on entry
InitLocals == [exc |-> NoExc, sum_image |-> None_HDUList,
               effstim_Jy |-> [bound |-> FALSE, val |-> 0]]

RECURSIVE RunLoop(_, _, _)
\* the loop over srcs from locals st, stopping at the first exception
RunLoop(st, srcs, c) ==
    IF srcs = <<>> \/ st.exc # NoExc THEN st
    ELSE RunLoop(LoopBody(st, Head(srcs), c), Tail(srcs), c)

\* calcImage(instrument, ...) as one call on a scene srcs: [exc, ret]
calcImage(srcs, c, dsk) ==
    LET st == RunLoop(InitLocals, srcs, c)
        post == PostLoop(st.sum_image, srcs, c, dsk)
    IN  IF st.exc # NoExc THEN [exc |-> st.exc, ret |-> None_HDUList]
        ELSE [exc |-> post.exc, ret |-> post.ret]

-----------------------------------------------------------------------------
(* Inputs *)

Instrument(d, n) == [detSamp |-> d, nExt |-> n]

NoCall == [sptype_or_spectrum |-> PySpectrum, name |-> "", separation |-> 0,
           PA |-> 0, normalization |-> PyNone]

NoCargs == [instrument |-> Instrument(1, 1), outfile |-> PyNone,
            noise |-> FALSE, rebin |-> FALSE, clobber |-> TRUE, PA |-> 0,
            offset_r |-> PyNone, offset_PA |-> 0]

G0V == T("G", "0", V)
M0V == T("M", "0", V)
Z9Z == <<"Z", "9", "Z">>
Outfile == PyStr(<<"s", ".", "f", "i", "t", "s">>)

\* scenes of the kind test_obssim builds: two spectral types and a spectrum
\* object, every kind of normalization, plus an unknown spectral type
AddArgs ==
    [sptype_or_spectrum : {PyStr(G0V), PySpectrum, PyStr(Z9Z)},
     name : {"A", "B"}, separation : {1000}, PA : {245},
     normalization : {PyNone, PyFloat(3), PyTuple}]

CalcArgs ==
    [instrument : {Instrument(2, 2)}, outfile : {PyNone, Outfile},
     noise : BOOLEAN, rebin : {TRUE}, clobber : {TRUE}, PA : {0},
     offset_r : {PyNone}, offset_PA : {0}]

\* geometry: separations of either sign and zero, angles inside and outside
\* (-180, 180], pointing offsets None, 0 and 1 arcsec
AddArgsOffset ==
    [sptype_or_spectrum : {PyStr(M0V)}, name : {"A"},
     separation : {-1000, 0, 2000}, PA : {-90, 45, 245},
     normalization : {PyNone}]

CalcArgsOffset ==
    [instrument : {Instrument(2, 2)}, outfile : {PyNone},
     noise : {FALSE}, rebin : {TRUE}, clobber : {TRUE}, PA : {0, 30},
     offset_r : {PyNone, PyFloat(0), PyFloat(1000)}, offset_PA : {90}]

\* rebinning and output: every shape of result the simulator may hand back
AddArgsRebin ==
    [sptype_or_spectrum : {PyStr(G0V)}, name : {"A", "B"},
     separation : {1000}, PA : {0}, normalization : {PyNone}]

CalcArgsRebin ==
    [instrument : {Instrument(d, n) : d \in 1..2, n \in 1..3},
     outfile : {PyNone, Outfile}, noise : {FALSE}, rebin : BOOLEAN,
     clobber : BOOLEAN, PA : {0}, offset_r : {PyNone}, offset_PA : {0}]

SourceOrder == [i \in 1..Len(lookuptable_rows) |-> lookuptable_rows[i][1]]
Rotate(s, k) == SubSeq(s, k + 1, Len(s)) \o SubSeq(s, 1, k)
Reverse(s) == [i \in 1..Len(s) |-> s[Len(s) + 1 - i]]

\* orders in which a dict may hand out its keys
DictOrders ==
    {Rotate(SourceOrder, k) : k \in 0..(Len(SourceOrder) - 1)}
      \cup {Reverse(Rotate(SourceOrder, k)) : k \in 0..(Len(SourceOrder) - 1)}

-----------------------------------------------------------------------------
(* The state machine *)

Init ==
    /\ sources = <<>>
    /\ pc = "idle"
    /\ op = "__init__"
    /\ call = NoCall
    /\ cargs = NoCargs
    /\ exc = NoExc
    /\ idx = 0
    /\ sum_image = None_HDUList
    /\ effstim_Jy = InitLocals.effstim_Jy
    /\ options = [r |-> 0, theta |-> 0]
    /\ ret = None_HDUList
    /\ disk = FALSE
    /\ wrote = FALSE
    /\ dict_order = SourceOrder
    /\ sptype_list = <<>>

\* the locals of a finished calcImage call are gone once another call is made
ForgetCalc ==
    /\ cargs' = NoCargs
    /\ idx' = 0
    /\ sum_image' = None_HDUList
    /\ effstim_Jy' = InitLocals.effstim_Jy
    /\ ret' = None_HDUList
    /\ wrote' = FALSE

AddPointSource(a) ==
    /\ pc = "idle"
    /\ LET r == addPointSource(sources, a)
       IN  /\ Len(r.sources) <= MaxSources
           /\ sources' = r.sources
           /\ exc' = r.exc
    /\ op' = "addPointSource"
    /\ call' = a
    /\ ForgetCalc
    /\ UNCHANGED <<pc, options, disk, dict_order, sptype_list>>

\* display() draws on the current matplotlib figure and touches nothing else
Display ==
    /\ pc = "idle"
    /\ op' = "display"
    /\ exc' = NoExc
    /\ call' = NoCall
    /\ ForgetCalc
    /\ UNCHANGED <<sources, pc, options, disk, dict_order, sptype_list>>

CalcImageStart(c) ==
    /\ pc = "idle"
    /\ pc' = "loop"
    /\ op' = "calcImage"
    /\ call' = NoCall
    /\ cargs' = c
    /\ exc' = NoExc
    /\ idx' = 0
    /\ sum_image' = None_HDUList
    /\ effstim_Jy' = InitLocals.effstim_Jy
    /\ ret' = None_HDUList
    /\ wrote' = FALSE
    /\ UNCHANGED <<sources, options, disk, dict_order, sptype_list>>

CalcImageSource ==
    /\ pc = "loop"
    /\ idx < Len(sources)
    /\ LET n == LoopBody([exc |-> exc, sum_image |-> sum_image,
                          effstim_Jy |-> effstim_Jy], sources[idx + 1], cargs)
       IN  /\ exc' = n.exc
           /\ sum_image' = n.sum_image
           /\ effstim_Jy' = n.effstim_Jy
           /\ options' = n.options
           /\ pc' = IF n.exc # NoExc THEN "idle" ELSE "loop"
    /\ idx' = idx + 1
    /\ UNCHANGED <<sources, op, call, cargs, ret, disk, wrote, dict_order,
                   sptype_list>>

CalcImageFinish ==
    /\ pc = "loop"
    /\ idx = Len(sources)
    /\ LET p == PostLoop(sum_image, sources, cargs, disk)
       IN  /\ exc' = p.exc
           /\ sum_image' = p.sum_image
           /\ ret' = p.ret
           /\ disk' = p.disk
           /\ wrote' = p.wrote
    /\ pc' = "idle"
    /\ UNCHANGED <<sources, op, call, cargs, idx, effstim_Jy, options,
                   dict_order, sptype_list>>

ListSpectralTypes ==
    /\ pc = "idle"
    /\ op' = "specFromSpectralType"
    /\ LET r == specFromSpectralType(<<>>, TRUE, dict_order)
       IN  /\ exc' = r.exc
           /\ sptype_list' = r.val
    /\ UNCHANGED <<sources, pc, call, cargs, idx, sum_image, effstim_Jy,
                   options, ret, disk, wrote, dict_order>>

Scene(A, C) ==
    \/ \E a \in A : AddPointSource(a)
    \/ \E c \in C : CalcImageStart(c)
    \/ CalcImageSource
    \/ CalcImageFinish
    \/ Display

Next == Scene(AddArgs, CalcArgs)
Spec == Init /\ [][Next]_vars

NextOffset == Scene(AddArgsOffset, CalcArgsOffset)
SpecOffset == Init /\ [][NextOffset]_vars

NextRebin == Scene(AddArgsRebin, CalcArgsRebin)
SpecRebin == Init /\ [][NextRebin]_vars

InitListing ==
    /\ sources = <<>>
    /\ pc = "idle"
    /\ op = "__init__"
    /\ call = NoCall
    /\ cargs = NoCargs
    /\ exc = NoExc
    /\ idx = 0
    /\ sum_image = None_HDUList
    /\ effstim_Jy = InitLocals.effstim_Jy
    /\ options = [r |-> 0, theta |-> 0]
    /\ ret = None_HDUList
    /\ disk = FALSE
    /\ wrote = FALSE
    /\ dict_order \in DictOrders
    /\ sptype_list = <<>>

NextListing == ListSpectralTypes
SpecListing == InitListing /\ [][NextListing]_vars

-----------------------------------------------------------------------------
(* Properties *)

\* a calcImage call has ended, by returning or by raising
Done == pc = "idle" /\ op = "calcImage"

\* every normalization is None or a number
Permitted(srcs) ==
    \A i \in 1..Len(srcs) :
        srcs[i].normalization.type = "NoneType" \/ IsNumber(srcs[i].normalization)

IsAdded(e) == e.fmt = AddedFmt
AddedEntries(hdu) == SelectSeq(hdu.history, IsAdded)

\* the factor a source's PSF is to be multiplied by
Factor(obj) ==
    IF obj.normalization.type = "NoneType" THEN Effstim(obj.spectrum)
    ELSE obj.normalization.val

\* the PSF the simulator returns for obj under the call c
UnitPSF(obj, c) ==
    calcPSF(c.instrument, obj.spectrum,
            ResolveOffset(obj, c), c.rebin).hdus[1].data

RECURSIVE ExpectedData(_, _)
\* the sum over the sources of factor times PSF
ExpectedData(srcs, c) ==
    IF Len(srcs) = 1 THEN Scale(UnitPSF(srcs[1], c), Factor(srcs[1]))
    ELSE AddData(ExpectedData(SubSeq(srcs, 1, Len(srcs) - 1), c),
                 Scale(UnitPSF(srcs[Len(srcs)], c), Factor(srcs[Len(srcs)])))

\* C1: for a scene of N >= 1 sources with normalization None or a number,
\* calcImage with offset_r = None and noise = False completes, the composite's
\* first header has NSOURCES = N, and the history holds exactly N "Added
\* source" entries, one per source, in the order the sources were added.
C1_CompletesWithNSources ==
    (Done /\ cargs.offset_r.type = "NoneType" /\ ~cargs.noise
          /\ Len(sources) >= 1 /\ Permitted(sources))
    => /\ exc = NoExc
       /\ ~ret.none
       /\ ret.hdus[1].header["NSOURCES"] = Len(sources)
       /\ LET A == AddedEntries(ret.hdus[1])
          IN  /\ Len(A) = Len(sources)
              /\ \A i \in 1..Len(sources) :
                    /\ A[i].s = sources[i].name
                    /\ A[i].n = <<sources[i].separation, sources[i].PA>>

\* C2: for a scene of exactly one source whose normalization is a number k,
\* calcImage returns a composite whose first-extension pixel sum is k times
\* the pixel sum of the PSF the simulator returned for that source.
C2_ScalarNormalization ==
    (Done /\ ~cargs.noise /\ Len(sources) = 1
          /\ IsNumber(sources[1].normalization))
    => /\ exc = NoExc
       /\ ~ret.none
       /\ PixelSum(ret.hdus[1].data)
            = sources[1].normalization.val * PixelSum(UnitPSF(sources[1], cargs))

Perms(n) == {f \in [1..n -> 1..n] : \A i, j \in 1..n : f[i] = f[j] => i = j}
Permuted(srcs, f) == [i \in 1..Len(srcs) |-> srcs[f[i]]]
\* the total pixel sum of a call's result; -1 when the call raised
TotalFlux(r) == IF r.exc = NoExc THEN PixelSum(r.ret.hdus[1].data) ELSE -1

\* C4: for sources with normalization None or a number, every order of
\* adding them yields the same final total pixel sum of the composite.
C4_OrderIndependentFlux ==
    (Done /\ ~cargs.noise /\ Len(sources) >= 1 /\ Permitted(sources))
    => \A f \in Perms(Len(sources)) :
          TotalFlux(calcImage(Permuted(sources, f), cargs, FALSE))
            = TotalFlux([exc |-> exc, ret |-> ret])

\* C5: addPointSource with a string that is no key of the table raises a
\* LookupError whose message carries that string, and leaves self.sources
\* exactly as it was.
C5_UnknownTypeRejected ==
    [][(/\ op' = "addPointSource"
        /\ call'.sptype_or_spectrum.type = "str"
        /\ call'.sptype_or_spectrum.val \notin lookuptable_keys)
       => /\ exc'.type = "LookupError"
          /\ exc'.fmt = "Lookup table does not include spectral type %s"
          /\ exc'.arg = call'.sptype_or_spectrum.val
          /\ sources' = sources]_vars

\* C5 witness: 'Z9Z' rejected on a scene that already holds a source
C5_Witness ==
    /\ op = "addPointSource" /\ exc.type = "LookupError"
    /\ call.sptype_or_spectrum = PyStr(Z9Z) /\ exc.arg = Z9Z
    /\ Len(sources) >= 1

\* the first source whose normalization is neither None nor a number, or 0
FirstUnsupported(srcs) ==
    IF Permitted(srcs) THEN 0
    ELSE CHOOSE i \in 1..Len(srcs) :
            /\ ~Permitted(SubSeq(srcs, 1, i))
            /\ Permitted(SubSeq(srcs, 1, i - 1))

\* C6: calcImage fails with a "not implemented" error, returns no composite
\* and writes no file, (a) when some source's normalization is neither None
\* nor a number: at that source, before its data are accumulated; (b) when
\* noise = True: after the loop, before NSOURCES is recorded.
C6_NotImplementedFailsFast ==
    Done =>
      /\ ~Permitted(sources) =>
            /\ exc.type = "NotImplementedError"
            /\ ret.none /\ ~wrote
            /\ idx = FirstUnsupported(sources)
            /\ idx > 1 => sum_image.hdus[1].data
                            = ExpectedData(SubSeq(sources, 1, idx - 1), cargs)
            /\ idx = 1 => sum_image.none
      /\ (Permitted(sources) /\ cargs.noise) =>
            /\ exc.type = "NotImplementedError"
            /\ ret.none /\ ~wrote
            /\ idx = Len(sources)
            /\ ~sum_image.none =>
                  "NSOURCES" \notin DOMAIN sum_image.hdus[1].header

\* the ordinal as the specification states it: letter base, plus digit, plus 0.1 / 0.3 / 0.5
\* for the luminosity class I / III / V that follows the digit (times 10)
Ordinal(k) ==
    LET class == SubSeq(k, 3, Len(k))
    IN  10 * (CASE k[1] = "O" -> 0 [] k[1] = "B" -> 10 [] k[1] = "A" -> 20
                [] k[1] = "F" -> 30 [] k[1] = "G" -> 40 [] k[1] = "K" -> 50
                [] k[1] = "M" -> 60)
          + 10 * int(k[2])
          + (CASE class = I -> 1 [] class = III -> 3 [] class = V -> 5)

Position(list, k) == CHOOSE i \in 1..Len(list) : list[i] = k

\* C7: the listing holds every key of the table exactly once, in
\* non-decreasing order of the ordinal; the ordinal is distinct for every
\* pair of keys; G0III precedes G0V, which precedes G5V.
C7_ListingSorted ==
    op = "specFromSpectralType"
    => /\ exc = NoExc
       /\ Len(sptype_list) = Cardinality(lookuptable_keys)
       /\ {sptype_list[i] : i \in 1..Len(sptype_list)} = lookuptable_keys
       /\ \A i, j \in 1..Len(sptype_list) :
             i < j => Ordinal(sptype_list[i]) <= Ordinal(sptype_list[j])
       /\ \A a, b \in lookuptable_keys : a # b => Ordinal(a) # Ordinal(b)
       /\ Position(sptype_list, T("G", "0", III))
            < Position(sptype_list, T("G", "0", V))
       /\ Position(sptype_list, T("G", "0", V))
            < Position(sptype_list, T("G", "5", V))

\* C7 witness: a listing that differs from the order the dict handed out
C7_Witness ==
    /\ op = "specFromSpectralType"
    /\ Len(sptype_list) = Len(dict_order)
    /\ sptype_list # dict_order
    /\ dict_order[1] = T("M", "2", I)
    /\ sptype_list[1] = T("O", "3", V)

\* C8: each successful addPointSource appends one descriptor, holding the
\* arguments as given, at the end of self.sources and leaves the earlier ones
\* alone; a failed addPointSource, calcImage and display leave self.sources
\* as it is.
C8_AppendOnly ==
    [][IF op' = "addPointSource" /\ exc' = NoExc
       THEN /\ sources' = Append(sources, Descriptor(call'))
            /\ sources'[Len(sources')] =
                  [spectrum |-> call'.sptype_or_spectrum, name |-> call'.name,
                   separation |-> call'.separation, PA |-> call'.PA,
                   normalization |-> call'.normalization]
       ELSE sources' = sources]_vars

\* C8 witness: two sources with different descriptors, still in call order
\* after a calcImage call that returned
C8_Witness ==
    /\ Done /\ exc = NoExc /\ ~ret.none
    /\ Len(sources) = 2
    /\ sources[1].name = "B" /\ sources[2].name = "A"

\* C9: in a calcImage run the four history entries written for a source
\* carry that source's name, separation and PA, its own flux in the
\* bandpass, its own counts and its own resolved offset, whichever
\* normalization branch it takes.
C9_ProvenanceIsOwn ==
    (op = "calcImage" /\ exc = NoExc /\ Permitted(sources))
    => \A i \in 1..idx :
          LET h == sum_image.hdus[1].history
              b == 2 + 4 * (i - 1)
              obj == sources[i]
          IN  /\ Len(h) >= b + 4
              /\ h[b + 1] = Entry(AddedFmt, obj.name,
                                  <<obj.separation, obj.PA>>)
              /\ h[b + 2] = Entry(EffstimFmt, "", <<Effstim(obj.spectrum)>>)
              /\ h[b + 3] = Entry(CountsFmt, "",
                                  <<Factor(obj) * PixelSum(UnitPSF(obj, cargs))>>)
              /\ h[b + 4] = Entry(PosFmt, "",
                                  <<ResolveOffset(obj, cargs).r,
                                    ResolveOffset(obj, cargs).theta>>)

====
